---- MODULE Spec2Model ----
(***************************************************************************)
(* LoRA parametrizations (src/lora/model.py): the factorization module,    *)
(* its frozen-A variant, and the traversal that attaches, merges and       *)
(* removes them across a network of host modules.                          *)
(*                                                                         *)
(* Spec    : one factorization built for one host layer (construction,     *)
(*           installation, enable/disable, reads, training updates).       *)
(* SpecNet : a module tree and the whole-network operations.               *)
(***************************************************************************)
EXTENDS Integers, Sequences, FiniteSets, TLC

\* ------------------------------------------------------------- bounds
MaxDim == 2      \* fan_in and fan_out range over 1..MaxDim
MaxRank == 2     \* rank ranges over 1..MaxRank
MaxMerges == 1   \* merge_lora calls per behaviour of SpecNet

Seeds == {1, 2}          \* families of values a random fill / update can produce
Alphas == {1, 2}         \* lora_alpha

\* ---------------------------------------------------------- rationals
\* Tensor entries are exact rationals <<numerator, denominator>> in lowest
\* terms (lora_alpha / rank is a true division).
Abs(x) == IF x < 0 THEN -x ELSE x

RECURSIVE GCD(_, _)
GCD(a, b) == IF b = 0 THEN a ELSE GCD(b, a % b)

Rat(n, d) ==
    LET g == GCD(Abs(n), Abs(d))
        s == IF d < 0 THEN -1 ELSE 1
    IN  <<(s * n) \div g, (s * d) \div g>>

R0 == <<0, 1>>
R1 == <<1, 1>>
RHalf == <<1, 2>>
RAdd(a, b) == Rat(a[1] * b[2] + b[1] * a[2], a[2] * b[2])
RMul(a, b) == Rat(a[1] * b[1], a[2] * b[2])
RDiv(a, b) == Rat(a[1] * b[2], a[2] * b[1])
RSub(a, b) == RAdd(a, <<-b[1], b[2]>>)

\* ------------------------------------------------------------ tensors
\* A tensor is its shape and its entries in row-major order.  Bad stands for
\* the RuntimeError a tensor operation raises on incompatible shapes.
RECURSIVE Prod(_)
Prod(shape) == IF shape = <<>> THEN 1 ELSE Head(shape) * Prod(Tail(shape))

Bad == [shape |-> <<>>, data |-> <<>>]
IsBad(t) == t = Bad
NoneT == [shape |-> <<0>>, data |-> <<>>]     \* Python's None where a tensor may stand

Mat(r, c, f(_, _)) ==
    [shape |-> <<r, c>>,
     data |-> [k \in 1..(r * c) |-> f(((k - 1) \div c) + 1, ((k - 1) % c) + 1)]]

At(t, i, j) == t.data[(i - 1) * t.shape[2] + j]

zeros(shape) == [shape |-> shape, data |-> [k \in 1..Prod(shape) |-> R0]]
ones(shape) == [shape |-> shape, data |-> [k \in 1..Prod(shape) |-> R1]]

\* the value family a random draw (kaiming_uniform_, an optimizer step, a
\* decomposition's factor) is taken from: nonzero small integers
RandVal(seed, k) ==
    LET v == ((seed + 2 * k) % 5) - 2 IN IF v = 0 THEN 3 ELSE v

Fill(shape, seed) ==
    [shape |-> shape, data |-> [k \in 1..Prod(shape) |-> Rat(RandVal(seed, k), 1)]]

Transpose(t) == Mat(t.shape[2], t.shape[1], LAMBDA i, j : At(t, j, i))

RECURSIVE Dot(_, _, _, _, _)
Dot(a, b, i, j, l) ==
    IF l = 0 THEN R0
    ELSE RAdd(Dot(a, b, i, j, l - 1), RMul(At(a, i, l), At(b, l, j)))

matmul(a, b) ==
    IF IsBad(a) \/ IsBad(b) THEN Bad
    ELSE IF Len(a.shape) # 2 \/ Len(b.shape) # 2 THEN Bad
    ELSE IF a.shape[2] # b.shape[1] THEN Bad
    ELSE Mat(a.shape[1], b.shape[2], LAMBDA i, j : Dot(a, b, i, j, a.shape[2]))

\* a[:, :k]
SliceCols(a, k) ==
    LET c == IF k < a.shape[2] THEN k ELSE a.shape[2]
    IN  Mat(a.shape[1], c, LAMBDA i, j : At(a, i, j))

\* s[:k] of a one-dimensional tensor
Slice1(s, k) ==
    LET n == IF k < s.shape[1] THEN k ELSE s.shape[1]
    IN  [shape |-> <<n>>, data |-> SubSeq(s.data, 1, n)]

\* elementwise product with broadcasting of a 2-D tensor with a 2-D or 1-D one
BDim(x, y) == IF x = y THEN x ELSE IF x = 1 THEN y ELSE IF y = 1 THEN x ELSE 0

BMul(a, b0) ==
    IF IsBad(a) \/ IsBad(b0) THEN Bad
    ELSE
    LET b == IF Len(b0.shape) = 1
             THEN [shape |-> <<1, b0.shape[1]>>, data |-> b0.data] ELSE b0
        r == BDim(a.shape[1], b.shape[1])
        c == BDim(a.shape[2], b.shape[2])
    IN  IF r = 0 \/ c = 0 THEN Bad
        ELSE Mat(r, c, LAMBDA i, j :
                 RMul(At(a, IF a.shape[1] = 1 THEN 1 ELSE i,
                            IF a.shape[2] = 1 THEN 1 ELSE j),
                      At(b, IF b.shape[1] = 1 THEN 1 ELSE i,
                            IF b.shape[2] = 1 THEN 1 ELSE j)))

ScalarMul(a, x) ==
    IF IsBad(a) THEN Bad
    ELSE [shape |-> a.shape, data |-> [k \in 1..Len(a.data) |-> RMul(a.data[k], x)]]

TAdd(a, b) ==
    IF IsBad(a) \/ IsBad(b) \/ a.shape # b.shape THEN Bad
    ELSE [shape |-> a.shape,
          data |-> [k \in 1..Len(a.data) |-> RAdd(a.data[k], b.data[k])]]

\* t.view(shape): same entries, new shape, RuntimeError unless the sizes agree
view(t, shape) ==
    IF IsBad(t) \/ Prod(t.shape) # Prod(shape) THEN Bad
    ELSE [shape |-> shape, data |-> t.data]

Eye(n) == Mat(n, n, LAMBDA i, j : IF i = j THEN R1 ELSE R0)

Min(x, y) == IF x < y THEN x ELSE y

\* A rectangular diagonal matrix with descending positive diagonal
\* seed+k-1, ..., seed: the dense weights handed to the svd initializer.
DiagWeight(shape, seed) ==
    LET k == Min(shape[1], shape[2])
    IN  Mat(shape[1], shape[2],
            LAMBDA i, j : IF i = j THEN Rat(seed + k - i, 1) ELSE R0)

\* torch.linalg.svd(W) (full_matrices): U is m x m, S has min(m, n) entries,
\* the third result is n x n.  Exact for the rectangular diagonal W above.
svd(W) ==
    LET m == W.shape[1]
        n == W.shape[2]
        k == Min(m, n)
    IN  [u |-> Eye(m),
         s |-> [shape |-> <<k>>, data |-> [i \in 1..k |-> At(W, i, i)]],
         v |-> Eye(n)]

\* torch.linalg.qr(M) (reduced): Q is m x k, R is k x n, k = min(m, n); the
\* entries are left to the value family.
qr(M, seed) ==
    LET m == M.shape[1]
        n == M.shape[2]
        k == Min(m, n)
    IN  [Q |-> Fill(<<m, k>>, seed), R |-> Fill(<<k, n>>, seed + 1)]

\* ------------------------------------------- the factorization module
NoErr == "none"
NoObj == [cls |-> "none"]

swap(fan_in_fan_out, x) == IF fan_in_fan_out THEN <<x[2], x[1]>> ELSE x

\* nn.init.kaiming_uniform_(t, a=sqrt(5)): every entry redrawn, shape kept
kaiming_uniform(t, seed) == Fill(t.shape, seed)

InitResult(e, A, B, V) == [err |-> e, lora_A |-> A, lora_B |-> B, V |-> V]

\* _init_AB without the original_weights check: svd init falls through
Base_init_AB_unchecked(self, init_method, seed) ==
    IF init_method = "kaiming"
    THEN InitResult(NoErr, kaiming_uniform(self.lora_A, seed), self.lora_B, NoneT)
    ELSE InitResult(NoErr, self.lora_A, self.lora_B, NoneT)

\* LoRAParametrization._init_AB
Base_init_AB(self, init_method, seed) ==
    IF init_method = "kaiming"
    THEN InitResult(NoErr, kaiming_uniform(self.lora_A, seed), self.lora_B, NoneT)
    ELSE IF init_method = "svd"
    THEN IF self.original_weights = NoneT
         THEN InitResult("ValueError", self.lora_A, self.lora_B, NoneT)
         ELSE LET d == svd(self.original_weights)
                  us == BMul(SliceCols(d.u, self.rank), Slice1(d.s, self.rank))
                  vr == SliceCols(d.v, self.rank)
              IN  IF IsBad(us)
                  THEN InitResult("RuntimeError", self.lora_A, self.lora_B, NoneT)
                  ELSE InitResult(NoErr, Transpose(us), vr,
                                  IF self.cache_V THEN vr ELSE NoneT)
    ELSE InitResult(NoErr, self.lora_A, self.lora_B, NoneT)

\* LoRAFAParametrization._init_AB
FA_init_AB(self, init_method, seed) ==
    IF init_method = "kaiming"
    THEN LET A1 == kaiming_uniform(self.lora_A, seed)
             d == qr(Transpose(A1), seed)
             B2 == matmul(self.lora_B, d.R)
         IN  IF IsBad(B2)
             THEN InitResult("RuntimeError", Transpose(d.Q), self.lora_B, NoneT)
             ELSE InitResult(NoErr, Transpose(d.Q), B2, NoneT)
    ELSE IF init_method = "svd"
    THEN Base_init_AB(self, "svd", seed)
    ELSE InitResult(NoErr, self.lora_A, self.lora_B, NoneT)

\* self._init_AB(init_method): dispatched on the object's class
init_AB(self, init_method, seed) ==
    IF self.cls = "LoRAFAParametrization"
    THEN FA_init_AB(self, init_method, seed)
    ELSE Base_init_AB(self, init_method, seed)

\* the two zero-filled factors the constructor starts from
InitialFactors(kw) ==
    [lora_A |-> zeros(swap(kw.fan_in_fan_out, <<kw.rank, kw.fan_in>>)),
     lora_B |-> zeros(swap(kw.fan_in_fan_out, <<kw.fan_out, kw.rank>>))]

\* the object as it stands when __init__ calls self._init_AB
BeforeInitAB(cls, kw) ==
    [cls |-> cls, rank |-> kw.rank,
     lora_A |-> InitialFactors(kw).lora_A, lora_B |-> InitialFactors(kw).lora_B,
     original_weights |-> kw.original_weights, cache_V |-> kw.cache_V]

\* the rest of LoRAParametrization.__init__, given what _init_AB returned (r)
AfterInitAB(cls, kw, r) ==
    IF r.err # NoErr THEN [err |-> r.err, obj |-> NoObj]
    ELSE [err |-> NoErr,
          obj |-> [cls |-> cls,
                   swap |-> kw.fan_in_fan_out,
                   lora_alpha |-> kw.lora_alpha,
                   rank |-> kw.rank,
                   lora_A |-> r.lora_A,
                   lora_B |-> r.lora_B,
                   A_requires_grad |-> TRUE,
                   B_requires_grad |-> TRUE,
                   V |-> r.V,
                   scaling |-> Rat(kw.lora_alpha, kw.rank),
                   lora_dropout_p |-> kw.lora_dropout_p,
                   lora_dropout_mask |->
                       ones(swap(kw.fan_in_fan_out, <<1, kw.fan_in>>)),
                   forward_fn |-> "lora_forward",
                   training |-> TRUE]]

\* LoRAParametrization.__init__, run for an object of class cls
LoRAParametrization_init(cls, kw, seed) ==
    AfterInitAB(cls, kw, init_AB(BeforeInitAB(cls, kw), kw.init_method, seed))

\* the frozen variant without its requires_grad_(False) call
FA_A_requires_grad_left == TRUE

\* self.lora_A.requires_grad_(False) of LoRAFAParametrization.__init__
FA_A_requires_grad == FALSE

\* LoRAFAParametrization.__init__ after super().__init__ returned r
LoRAFAParametrization_init(r) ==
    IF r.err # NoErr THEN r
    ELSE [r EXCEPT !.obj.A_requires_grad = FA_A_requires_grad]

\* what a subclass __init__ adds once the base __init__ returned r
SubclassInit(cls, r) ==
    IF cls = "LoRAFAParametrization" THEN LoRAFAParametrization_init(r) ELSE r

\* cls(...)
New(cls, kw, seed) == SubclassInit(cls, LoRAParametrization_init(cls, kw, seed))

\* the default of the init_method parameter of each class's __init__
DefaultInit(cls) == IF cls = "LoRAFAParametrization" THEN "svd" ELSE "kaiming"

Kwargs(fan_in, fan_out, fifo, o, init_method, ow, cache_V) ==
    [fan_in |-> fan_in, fan_out |-> fan_out, fan_in_fan_out |-> fifo,
     rank |-> o.rank, lora_dropout_p |-> o.lora_dropout_p,
     lora_alpha |-> o.lora_alpha, init_method |-> init_method,
     original_weights |-> ow, cache_V |-> cache_V]

\* the classmethods: the arguments each hands to cls(...); o holds the
\* keyword arguments of the call
from_linear(cls, weight, o) ==
    Kwargs(weight.shape[2], weight.shape[1], FALSE, o,
           o.init_method, o.original_weights, o.cache_V)

from_conv2d(cls, weight, o) ==
    Kwargs(view(weight, <<weight.shape[1], Prod(Tail(weight.shape))>>).shape[2],
           view(weight, <<weight.shape[1], Prod(Tail(weight.shape))>>).shape[1],
           FALSE, o, DefaultInit(cls), NoneT, FALSE)

from_embedding(cls, weight, o) ==
    Kwargs(weight.shape[1], weight.shape[2], TRUE, o,
           DefaultInit(cls), NoneT, FALSE)

\* nn.Dropout(p) applied to the all-ones mask buffer: in training mode the
\* entries in keep survive, scaled by 1/(1-p), the others are zeroed
Dropout(self, keep) ==
    LET m == self.lora_dropout_mask
    IN  IF ~self.training THEN m
        ELSE [shape |-> m.shape,
              data |-> [k \in 1..Len(m.data) |->
                          IF k \in keep
                          THEN RDiv(m.data[k], RSub(R1, self.lora_dropout_p))
                          ELSE R0]]

\* self.dropout_fn: _dropout when lora_dropout_p > 0, the identity otherwise
dropout_fn(self, keep) ==
    IF self.lora_dropout_p[1] > 0
    THEN BMul(self.lora_A, Dropout(self, keep))
    ELSE self.lora_A

\* matmul(*self.swap((lora_B, A)))
FactorProduct(self, A) ==
    IF self.swap THEN matmul(A, self.lora_B) ELSE matmul(self.lora_B, A)

lora_forward(self, X, keep) ==
    TAdd(X, ScalarMul(view(FactorProduct(self, dropout_fn(self, keep)), X.shape),
                      self.scaling))

forward(self, X, keep) ==
    IF self.forward_fn = "lora_forward" THEN lora_forward(self, X, keep) ELSE X

\* disable_lora that leaves the forward function in place
disable_lora_noop(self) == self

disable_lora(self) == [self EXCEPT !.forward_fn = "identity"]
enable_lora(self) == [self EXCEPT !.forward_fn = "lora_forward"]

\* ---------------------------------------------------------------- state
VARIABLES
    call,      \* Spec: the attach call: class, entry point, host weight, arguments
    pc,        \* Spec: "start", "attached" (overlay installed) or "failed"
    err,       \* Spec: the exception the attach call raised, or "none"
    lora,      \* Spec: the installed factorization object
    built,     \* Spec: the factors as construction left them
    toggle,    \* Spec: the most recent enable_lora / disable_lora call
    out,       \* Spec: the last value read through the overlay, with its mask
    model,     \* SpecNet: the module tree
    raised,    \* SpecNet: the exception the last whole-network call raised
    last,      \* SpecNet: the last whole-network call and its arguments
    merges,    \* SpecNet: merge_lora calls made so far
    host,      \* SpecNet: what the host build keeps a module's children in
    registry   \* SpecNet: the registry the session hands to its attach calls

ovars == <<call, pc, err, lora, built, toggle, out>>
nvars == <<model, raised, last, merges, host, registry>>
vars == <<call, pc, err, lora, built, toggle, out, model, raised, last, merges, host,
          registry>>

Classes == {"LoRAParametrization", "LoRAFAParametrization"}
Dims == 1..MaxDim
Ranks == 1..MaxRank
DropoutPs == {R0, RHalf}
InitMethods == {"kaiming", "svd", "other"}
NoRead == [value |-> NoneT, keep |-> {}]
NoBuilt == [lora_A |-> NoneT, lora_B |-> NoneT]

\* original_weights as a caller may supply it for a weight of shape
\* (fan_out, fan_in): nothing, a matrix of that shape, or of the transposed one
OriginalWeights(fan_in, fan_out) ==
    {NoneT, DiagWeight(<<fan_out, fan_in>>, 1), DiagWeight(<<fan_in, fan_out>>, 1)}

Opts(rank, p, alpha, init_method, ow, cache_V) ==
    [rank |-> rank, lora_dropout_p |-> p, lora_alpha |-> alpha,
     init_method |-> init_method, original_weights |-> ow, cache_V |-> cache_V]

CtorCalls ==
    {[cls |-> c, entry |-> "ctor", fan_in |-> fi, fan_out |-> fo,
      fan_in_fan_out |-> x, weight |-> Fill(swap(x, <<fo, fi>>), 1),
      o |-> Opts(r, p, al, im, ow, cv)] :
        c \in Classes, fi \in Dims, fo \in Dims, x \in BOOLEAN, r \in Ranks,
        p \in DropoutPs, al \in Alphas, im \in InitMethods,
        ow \in UNION {OriginalWeights(a, b) : a \in Dims, b \in Dims},
        cv \in BOOLEAN}

LinearCalls ==
    {[cls |-> c, entry |-> "from_linear", fan_in |-> fi, fan_out |-> fo,
      fan_in_fan_out |-> FALSE, weight |-> Fill(<<fo, fi>>, 1),
      o |-> Opts(r, p, al, im, ow, cv)] :
        c \in Classes, fi \in Dims, fo \in Dims, r \in Ranks,
        p \in DropoutPs, al \in Alphas, im \in InitMethods,
        ow \in UNION {OriginalWeights(a, b) : a \in Dims, b \in Dims},
        cv \in BOOLEAN}

\* a convolution weight (out, in, 1, kw) with in * kw <= MaxDim
ConvCalls ==
    {[cls |-> c, entry |-> "from_conv2d", fan_in |-> ci * kw, fan_out |-> fo,
      fan_in_fan_out |-> FALSE, weight |-> Fill(<<fo, ci, 1, kw>>, 1),
      o |-> Opts(r, p, al, "unset", NoneT, FALSE)] :
        c \in Classes, fo \in Dims,
        ci \in Dims, kw \in {k \in Dims : k * 1 <= MaxDim}, r \in Ranks,
        p \in DropoutPs, al \in Alphas}

EmbeddingCalls ==
    {[cls |-> c, entry |-> "from_embedding", fan_in |-> fi, fan_out |-> fo,
      fan_in_fan_out |-> TRUE, weight |-> Fill(<<fi, fo>>, 1),
      o |-> Opts(r, p, al, "unset", NoneT, FALSE)] :
        c \in Classes, fi \in Dims, fo \in Dims, r \in Ranks,
        p \in DropoutPs, al \in Alphas}

\* cache_V and the transposed original_weights are read by the svd branch
\* alone; the other methods are called with and without original_weights
Calls ==
    {c \in CtorCalls \cup LinearCalls :
        /\ c.o.original_weights \in OriginalWeights(c.fan_in, c.fan_out)
        /\ c.o.init_method # "svd" =>
             /\ ~c.o.cache_V
             /\ c.o.original_weights
                  \in {NoneT, DiagWeight(<<c.fan_out, c.fan_in>>, 1)}}
    \cup {c \in ConvCalls : c.fan_in <= MaxDim} \cup EmbeddingCalls

\* the constructor arguments a call arrives with
CtorArgs(c) ==
    IF c.entry = "from_linear" THEN from_linear(c.cls, c.weight, c.o)
    ELSE IF c.entry = "from_conv2d" THEN from_conv2d(c.cls, c.weight, c.o)
    ELSE IF c.entry = "from_embedding" THEN from_embedding(c.cls, c.weight, c.o)
    ELSE Kwargs(c.fan_in, c.fan_out, c.fan_in_fan_out, c.o,
                c.o.init_method, c.o.original_weights, c.o.cache_V)

\* parametrization(layer) of apply_lora: the registry entry applied to the layer
Build(c, seed) == New(c.cls, CtorArgs(c), seed)

\* the masks one evaluation of the module can draw
Keeps(self) ==
    IF self.forward_fn = "lora_forward" /\ self.lora_dropout_p[1] > 0
       /\ self.training
    THEN SUBSET (1..Len(self.lora_dropout_mask.data))
    ELSE {{}}

NetIdle == /\ model = <<>>
           /\ raised = NoErr
           /\ last = [op |-> "none"]
           /\ merges = 0
           /\ host = "dict"
           /\ registry = <<>>

Init ==
    /\ call \in Calls
    /\ pc = "start"
    /\ err = NoErr
    /\ lora = NoObj
    /\ built = NoBuilt
    /\ toggle = "none"
    /\ out = NoRead
    /\ NetIdle

\* registration evaluates the overlay once on the original tensor (Z) and
\* installs it only if that succeeds
Install(obj, Z) ==
    IF IsBad(Z)
    THEN /\ pc' = "failed"
         /\ err' = "RuntimeError"
         /\ UNCHANGED <<lora, built>>
    ELSE /\ pc' = "attached"
         /\ lora' = obj
         /\ built' = [lora_A |-> obj.lora_A, lora_B |-> obj.lora_B]
         /\ UNCHANGED err

\* parametrize.register_parametrization(layer, attr_name, r): r is what the
\* factory returned or raised
Register(r) ==
    IF r.err # NoErr
    THEN /\ pc' = "failed"
         /\ err' = r.err
         /\ UNCHANGED <<lora, built>>
    ELSE \E keep \in Keeps(r.obj) :
            Install(r.obj, forward(r.obj, call.weight, keep))

\* apply_lora's register branch on one layer: the factory runs first
Attach ==
    /\ pc = "start"
    /\ Register(Build(call, 1))
    /\ UNCHANGED <<call, toggle, out, nvars>>

DisableLoRA ==
    /\ pc = "attached"
    /\ lora' = disable_lora(lora)
    /\ toggle' = "disable_lora"
    /\ out' = NoRead
    /\ UNCHANGED <<call, pc, err, built, nvars>>

EnableLoRA ==
    /\ pc = "attached"
    /\ lora' = enable_lora(lora)
    /\ toggle' = "enable_lora"
    /\ out' = NoRead
    /\ UNCHANGED <<call, pc, err, built, nvars>>

\* a read of the wrapped attribute: forward(original)
Read ==
    /\ pc = "attached"
    /\ \E keep \in Keeps(lora) :
         out' = [value |-> forward(lora, call.weight, keep), keep |-> keep]
    /\ UNCHANGED <<call, pc, err, lora, built, toggle, nvars>>

\* an optimizer step: every factor that requires grad takes new values
step(self, seed) ==
    [self EXCEPT !.lora_B = IF self.B_requires_grad
                            THEN Fill(self.lora_B.shape, seed)
                            ELSE self.lora_B,
                 !.lora_A = IF self.A_requires_grad
                            THEN Fill(self.lora_A.shape, seed + 1)
                            ELSE self.lora_A]

TrainStep ==
    /\ pc = "attached"
    /\ \E seed \in Seeds : lora' = step(lora, seed)
    /\ out' = NoRead
    /\ UNCHANGED <<call, pc, err, built, toggle, nvars>>

\* module.train() / module.eval(): the mode the nn.Dropout child consults
\* (a child that exists only when lora_dropout_p > 0)
SetTraining ==
    /\ pc = "attached"
    /\ lora.lora_dropout_p[1] > 0
    /\ \E mode \in BOOLEAN : lora' = [lora EXCEPT !.training = mode]
    /\ out' = NoRead
    /\ UNCHANGED <<call, pc, err, built, toggle, nvars>>

Next == Attach \/ DisableLoRA \/ EnableLoRA \/ Read \/ TrainStep \/ SetTraining

Spec == Init /\ [][Next]_vars

\* ------------------------------------------------------ the module tree
\* A host module: its qualified name (one character per element), its parent
\* (0 for the root), its class, its weight, and the overlays registered on
\* "weight" (the ParametrizationList; empty when the attribute is plain).
\* Modules are numbered in named_modules() order (depth-first, parents first).
Node(name, parent, cls, weight) ==
    [name |-> name, parent |-> parent, cls |-> cls, weight |-> weight,
     parametrizations |-> <<>>]

Trees ==
    { << Node(<<>>, 0, "Sequential", NoneT),
         Node(<<"a">>, 1, "Sequential", NoneT),
         Node(<<"a", ".", "b">>, 2, "Linear", Fill(<<1, 2>>, 1)),
         Node(<<"b">>, 1, "Linear", Fill(<<2, 1>>, 2)) >>,
      << Node(<<>>, 0, "Sequential", NoneT),
         Node(<<"a">>, 1, "Linear", Fill(<<1, 1>>, 1)),
         Node(<<"b">>, 1, "Sequential", NoneT),
         Node(<<"b", ".", "a">>, 3, "Embedding", Fill(<<2, 1>>, 2)) >> }

\* type(layer): registering the first parametrization swaps the module's class
\* for a generated subclass, and removing the last one swaps it back
TypeOf(layer) ==
    IF layer.parametrizations = <<>> THEN layer.cls
    ELSE IF layer.cls = "Linear" THEN "ParametrizedLinear"
    ELSE IF layer.cls = "Embedding" THEN "ParametrizedEmbedding"
    ELSE "ParametrizedSequential"

\* registries: layer type -> the factory bound to attribute "weight"
Factory(cls, entry, rank, alpha) ==
    [cls |-> cls, entry |-> entry,
     o |-> Opts(rank, R0, alpha, "kaiming", NoneT, FALSE)]

default_lora_config ==
    [t \in {"Linear"} |-> Factory("LoRAParametrization", "from_linear", 4, 1)]

custom_lora_config ==
    [t \in {"Linear", "Embedding"} |->
        IF t = "Linear"
        THEN Factory("LoRAFAParametrization", "from_linear", 1, 2)
        ELSE Factory("LoRAParametrization", "from_embedding", 1, 1)]

Registries == {default_lora_config, custom_lora_config}

\* getattr(layer, "weight"): the original passed through every overlay in turn
RECURSIVE Chain(_, _, _)
Chain(ps, X, keep) ==
    IF ps = <<>> \/ IsBad(X) THEN X
    ELSE Chain(Tail(ps), forward(Head(ps), X, keep), keep)

ReadWeight(layer, keep) == Chain(layer.parametrizations, layer.weight, keep)

Outcome(m, e) == [model |-> m, raised |-> e]

\* parametrize.register_parametrization(layer, "weight", r): r is what the
\* factory returned or raised; the new overlay is evaluated once on the
\* attribute's current value before it is appended
register_parametrization(m, n, r, keep) ==
    IF r.err # NoErr THEN Outcome(m, r.err)
    ELSE IF IsBad(forward(r.obj, ReadWeight(m[n], keep), keep))
    THEN Outcome(m, "RuntimeError")
    ELSE Outcome([m EXCEPT ![n].parametrizations = Append(@, r.obj)], NoErr)

\* parametrization(layer) for a registry entry
Parametrization(layer, factory, seed) ==
    Build([cls |-> factory.cls, entry |-> factory.entry,
           weight |-> layer.weight, o |-> factory.o], seed)

\* parametrize.remove_parametrizations(layer, "weight", leave_parametrized)
remove_parametrizations(layer, leave_parametrized, keep) ==
    [layer EXCEPT !.weight = IF leave_parametrized
                             THEN ReadWeight(layer, keep) ELSE @,
                  !.parametrizations = <<>>]

\* what the loop over layer.parametrizations.keys() does once its body has
\* deleted the key it was handed: a dict iterator raises RuntimeError, an
\* OrderedDict iterator that had reached its last key ends the loop
KeysIterationAfterDelete(kind) ==
    IF kind = "dict" THEN "RuntimeError" ELSE NoErr

\* apply_lora(layer, register, merge, lora_config)
apply_lora(m, n, a) ==
    IF a.register
    THEN IF TypeOf(m[n]) \in DOMAIN a.lora_config
         THEN register_parametrization(
                  m, n, Parametrization(m[n], a.lora_config[TypeOf(m[n])], a.seed),
                  a.keep)
         ELSE Outcome(m, NoErr)
    ELSE IF m[n].parametrizations # <<>>
         THEN Outcome([m EXCEPT ![n] = remove_parametrizations(@, a.merge, a.keep)],
                      KeysIterationAfterDelete(a.host))
         ELSE Outcome(m, NoErr)

\* model.apply(fn): the children first, in order, then the module itself
RECURSIVE PostOrder(_, _)
RECURSIVE PostKids(_, _, _)
PostKids(m, n, k) ==
    IF k > Len(m) THEN <<>>
    ELSE (IF m[k].parent = n THEN PostOrder(m, k) ELSE <<>>) \o PostKids(m, n, k + 1)

PostOrder(m, n) == PostKids(m, n, 1) \o <<n>>

\* fn applied along a visiting order; an exception ends the traversal
RECURSIVE ApplyAlong(_, _, _)
ApplyAlong(st, order, a) ==
    IF order = <<>> \/ st.raised # NoErr THEN st
    ELSE ApplyAlong(apply_lora(st.model, Head(order), a), Tail(order), a)

Args(register, merge, lora_config, seed, keep, kind) ==
    [register |-> register, merge |-> merge, lora_config |-> lora_config,
     seed |-> seed, keep |-> keep, host |-> kind]

\* add_lora(model, lora_config), for the subtree rooted at module n
add_lora(st, n, lora_config, seed, keep, kind) ==
    ApplyAlong(st, PostOrder(st.model, n),
               Args(TRUE, FALSE, lora_config, seed, keep, kind))

\* "m in name" for strings
Contains(name, frag) ==
    \E i \in 0..(Len(name) - Len(frag)) : SubSeq(name, i + 1, i + Len(frag)) = frag

\* any([m in name for m in target_module_names]) holding for all fragments
NameMatchesAll(name, target_module_names) ==
    \A f \in target_module_names : Contains(name, f)

\* any([m in name for m in target_module_names])
NameMatches(name, target_module_names) ==
    \E f \in target_module_names : Contains(name, f)

\* add_lora_by_name: over named_modules(), from module k on
RECURSIVE add_lora_by_name(_, _, _, _, _, _, _)
add_lora_by_name(st, k, target_module_names, lora_config, seed, keep, kind) ==
    IF k > Len(st.model) \/ st.raised # NoErr THEN st
    ELSE add_lora_by_name(
             IF NameMatches(st.model[k].name, target_module_names)
             THEN add_lora(st, k, lora_config, seed, keep, kind) ELSE st,
             k + 1, target_module_names, lora_config, seed, keep, kind)

\* add_lora_by_layer_names: lora_named_config maps names to registries
RECURSIVE add_lora_by_layer_names(_, _, _, _, _, _)
add_lora_by_layer_names(st, k, lora_named_config, seed, keep, kind) ==
    IF k > Len(st.model) \/ st.raised # NoErr THEN st
    ELSE add_lora_by_layer_names(
             IF st.model[k].name \in DOMAIN lora_named_config
             THEN add_lora(st, k, lora_named_config[st.model[k].name],
                           seed, keep, kind)
             ELSE st,
             k + 1, lora_named_config, seed, keep, kind)

merge_lora(st, keep, kind) ==
    ApplyAlong(st, PostOrder(st.model, 1),
               Args(FALSE, TRUE, default_lora_config, 1, keep, kind))

remove_lora(st, keep, kind) ==
    ApplyAlong(st, PostOrder(st.model, 1),
               Args(FALSE, FALSE, default_lora_config, 1, keep, kind))

\* --------------------------------------------------- SpecNet: actions
TargetLists == {{}, {<<>>}, {<<"a">>}, {<<"b">>}, {<<"a">>, <<"c">>}}
KeySets == {{}, {<<"a">>}, {<<"b">>}, {<<"a">>, <<"b">>}}
NoConfig == [t \in {} |-> 0]

OverlayIdle ==
    /\ call = [entry |-> "none"]
    /\ pc = "idle"
    /\ err = NoErr
    /\ lora = NoObj
    /\ built = NoBuilt
    /\ toggle = "none"
    /\ out = NoRead

\* the record of the latest operation: tick flips with every whole-network
\* call, origin is the tree as it was before the first of them
Call(op, targets, keys, cfg) ==
    [op |-> op, targets |-> targets, keys |-> keys, cfg |-> cfg,
     tick |-> 1 - last.tick, origin |-> last.origin]

\* the record of an operation on the overlays of one layer
LayerOp(op) ==
    [op |-> op, targets |-> {}, keys |-> {}, cfg |-> NoConfig,
     tick |-> 0, origin |-> last.origin]

InitNet ==
    /\ model \in Trees
    /\ host \in {"dict", "OrderedDict"}
    /\ registry \in Registries
    /\ raised = NoErr
    /\ last = [op |-> "none", targets |-> {}, keys |-> {}, cfg |-> NoConfig,
               tick |-> 0, origin |-> model]
    /\ merges = 0
    /\ OverlayIdle

\* the masks a read of some wrapped attribute of the tree can draw
NetKeeps(m) ==
    IF \E n \in 1..Len(m) : \E i \in 1..Len(m[n].parametrizations) :
           Keeps(m[n].parametrizations[i]) # {{}}
    THEN SUBSET (1..MaxDim) ELSE {{}}

Finish(st, c) ==
    /\ model' = st.model
    /\ raised' = st.raised
    /\ last' = c
    /\ UNCHANGED <<host, registry, ovars>>

AddLora ==
    /\ \E keep \in NetKeeps(model) :
         Finish(add_lora(Outcome(model, NoErr), 1, registry, 1, keep, host),
                Call("add_lora", {}, {}, registry))
    /\ UNCHANGED merges

AddLoraByName ==
    /\ \E targets \in TargetLists, keep \in NetKeeps(model) :
         Finish(add_lora_by_name(Outcome(model, NoErr), 1, targets, registry,
                                 1, keep, host),
                Call("add_lora_by_name", targets, {}, registry))
    /\ UNCHANGED merges

AddLoraByLayerNames ==
    /\ \E keys \in KeySets, keep \in NetKeeps(model) :
         Finish(add_lora_by_layer_names(Outcome(model, NoErr), 1,
                                        [k \in keys |-> registry], 1, keep,
                                        host),
                Call("add_lora_by_layer_names", {}, keys, registry))
    /\ UNCHANGED merges

MergeLora ==
    /\ merges < MaxMerges
    /\ \E keep \in NetKeeps(model) :
         Finish(merge_lora(Outcome(model, NoErr), keep, host),
                Call("merge_lora", {}, {}, NoConfig))
    /\ merges' = merges + 1

RemoveLora ==
    /\ \E keep \in NetKeeps(model) :
         Finish(remove_lora(Outcome(model, NoErr), keep, host),
                Call("remove_lora", {}, {}, NoConfig))
    /\ UNCHANGED merges

Wrapped(m) == {n \in 1..Len(m) : m[n].parametrizations # <<>>}

\* layer.parametrizations.weight[i].disable_lora() / enable_lora()
NetDisable ==
    /\ \E n \in Wrapped(model) :
         model' = [model EXCEPT ![n].parametrizations =
                      [i \in 1..Len(@) |-> disable_lora(@[i])]]
    /\ last' = LayerOp("disable_lora")
    /\ UNCHANGED <<raised, merges, host, registry, ovars>>

NetEnable ==
    /\ \E n \in Wrapped(model) :
         model' = [model EXCEPT ![n].parametrizations =
                      [i \in 1..Len(@) |-> enable_lora(@[i])]]
    /\ last' = LayerOp("enable_lora")
    /\ UNCHANGED <<raised, merges, host, registry, ovars>>

\* an optimizer step on the factors of one wrapped layer
NetTrainStep ==
    /\ \E n \in Wrapped(model) :
         model' = [model EXCEPT ![n].parametrizations =
                      [i \in 1..Len(@) |-> step(@[i], 1)]]
    /\ last' = LayerOp("step")
    /\ UNCHANGED <<raised, merges, host, registry, ovars>>

NextNet ==
    \/ AddLora \/ AddLoraByName \/ AddLoraByLayerNames
    \/ MergeLora \/ RemoveLora
    \/ NetDisable \/ NetEnable \/ NetTrainStep

SpecNet == InitNet /\ [][NextNet]_vars

\* ------------------------------------------------- properties of Spec
\* the init method a call ends up with, and whether it supplies
\* original_weights: from_conv2d and from_embedding pass neither on
EffInit(c) ==
    IF c.entry \in {"ctor", "from_linear"} THEN c.o.init_method
    ELSE IF c.cls = "LoRAFAParametrization" THEN "svd" ELSE "kaiming"

Supplied(c) ==
    c.entry \in {"ctor", "from_linear"} /\ c.o.original_weights # NoneT

IsZero(t) == \A k \in 1..Len(t.data) : t.data[k] = R0

\* C1 (as claimed): with kaiming init, for either class and every rank >= 1,
\* the attach completes, leaves factor B all-zero, and a read of the wrapped
\* attribute right after attach returns the original tensor.
C1_KaimingZeroForEveryRank ==
    (pc # "start" /\ EffInit(call) = "kaiming") =>
        /\ pc = "attached"
        /\ IsZero(built.lora_B)
        /\ (out.value # NoneT /\ toggle = "none"
              /\ lora.lora_A = built.lora_A /\ lora.lora_B = built.lora_B)
               => out.value = call.weight

\* the reference value of the corrected tensor: entry k of X plus scaling
\* times entry k (row-major) of the layout-ordered product of the factors
RECURSIVE RefSum(_, _, _, _, _)
RefSum(L, R, i, j, l) ==
    IF l = 0 THEN R0
    ELSE RAdd(RMul(L.data[(i - 1) * L.shape[2] + l],
                   R.data[(l - 1) * R.shape[2] + j]),
              RefSum(L, R, i, j, l - 1))

RefCorrected(self, X, A1) ==
    LET L == IF self.swap THEN A1 ELSE self.lora_B
        R == IF self.swap THEN self.lora_B ELSE A1
        c == R.shape[2]
    IN  [shape |-> X.shape,
         data |-> [k \in 1..Len(X.data) |->
                     RAdd(X.data[k],
                          RMul(self.scaling,
                               RefSum(L, R, ((k - 1) \div c) + 1,
                                      ((k - 1) % c) + 1, L.shape[2])))]]

\* factor A under the drawn mask: kept input positions doubled (p = 1/2),
\* dropped ones zeroed; A itself without dropout or in eval mode
RefMasked(self, keep) ==
    IF self.lora_dropout_p = R0 \/ ~self.training THEN self.lora_A
    ELSE BMul(self.lora_A,
              [shape |-> self.lora_dropout_mask.shape,
               data |-> [k \in 1..Len(self.lora_dropout_mask.data) |->
                           IF k \in keep THEN <<2, 1>> ELSE R0]])

\* C2 (as claimed): a read returns X if the most recent toggle was
\* disable_lora, and X + scaling * reshape(B @ A) otherwise.
C2_ForwardIsXPlusBA ==
    out.value # NoneT =>
        IF toggle = "disable_lora" THEN out.value = call.weight
        ELSE out.value = RefCorrected(lora, call.weight, lora.lora_A)

\* C2 (amended): a read returns X if the most recent toggle was disable_lora,
\* whatever the factors; otherwise (enable_lora last, or no toggle yet) it
\* returns X + scaling * reshape(B @ A'), the factors multiplied in layout
\* order, where A' is A when lora_dropout_p = 0 or the module is in eval mode
\* and A times the freshly drawn dropout mask otherwise.
C2_ForwardWithDropout ==
    out.value # NoneT =>
        IF toggle = "disable_lora" THEN out.value = call.weight
        ELSE out.value = RefCorrected(lora, call.weight, RefMasked(lora, out.keep))

C2_Witness ==
    /\ out.value # NoneT
    /\ toggle = "enable_lora"
    /\ lora.lora_dropout_p = RHalf
    /\ lora.training
    /\ out.keep # {}
    /\ ~IsZero(lora.lora_B)
    /\ out.value # call.weight
    /\ out.value # RefCorrected(lora, call.weight, lora.lora_A)

\* C7: the attach call raises ValueError exactly when the init method in
\* effect is svd and original_weights was not supplied, and then no overlay
\* is installed on the layer.
C7_ConfigErrorIffSvdWithoutWeights ==
    pc # "start" =>
        /\ (err = "ValueError") <=> (EffInit(call) = "svd" /\ ~Supplied(call))
        /\ (err = "ValueError") => (pc = "failed" /\ lora = NoObj)

C7_Witness ==
    /\ pc = "failed"
    /\ err = "ValueError"
    /\ lora = NoObj
    /\ call.entry = "from_embedding"
    /\ call.cls = "LoRAFAParametrization"

\* C8: in the frozen variant A does not require grad, B does, and A keeps
\* the value construction gave it through toggles, reads and training steps.
C8_FrozenAKeepsItsValue ==
    (pc = "attached" /\ lora.cls = "LoRAFAParametrization") =>
        /\ ~lora.A_requires_grad
        /\ lora.B_requires_grad
        /\ lora.lora_A = built.lora_A

C8_Witness ==
    /\ pc = "attached"
    /\ lora.cls = "LoRAFAParametrization"
    /\ EffInit(call) = "kaiming"
    /\ lora.lora_B # built.lora_B
    /\ toggle = "disable_lora"
    /\ out.value # NoneT
    /\ lora.lora_A = built.lora_A

\* C10 (as claimed): after svd init from a weight of shape (fan_out, fan_in),
\* with 1 <= rank <= min(fan_in, fan_out) and the layout flag false, A has
\* shape (rank, fan_in) and B has shape (fan_out, rank).
C10_SvdFactorShapes ==
    ( /\ pc = "attached"
      /\ EffInit(call) = "svd"
      /\ ~call.fan_in_fan_out
      /\ call.o.original_weights = DiagWeight(<<call.fan_out, call.fan_in>>, 1)
      /\ call.o.rank <= Min(call.fan_in, call.fan_out) ) =>
        /\ built.lora_A.shape = <<call.o.rank, call.fan_in>>
        /\ built.lora_B.shape = <<call.fan_out, call.o.rank>>

\* ---------------------------------------------- properties of SpecNet
\* a step that is one whole-network call of the named function
IsCall(op) == last'.tick # last.tick /\ last'.op = op

Layers == 1..Len(model)

\* C3 (as claimed): after attaches, factor updates and toggles (no merge),
\* remove_lora leaves every submodule without an overlay and every
\* parameter equal to its value before the first attach.
C3_RemoveRestoresOriginals ==
    [][(IsCall("remove_lora") /\ merges = 0) =>
          \A n \in Layers :
              /\ model'[n].parametrizations = <<>>
              /\ model'[n].weight = last.origin[n].weight]_vars

\* C4 (as claimed): merge_lora leaves every submodule without an overlay,
\* each parameter holding the value a read of the attribute returned just
\* before the merge.
C4_MergeBakesReadValue ==
    [][IsCall("merge_lora") =>
          \A n \in Layers :
              /\ model'[n].parametrizations = <<>>
              /\ model'[n].weight = ReadWeight(model[n], {})]_vars

\* C5 (as claimed): add_lora_by_layer_names leaves every layer whose
\* qualified name is not a key of lora_named_config exactly as it was,
\* descendants of a keyed container included.
C5_OnlyKeyedLayersChange ==
    [][IsCall("add_lora_by_layer_names") =>
          \A n \in Layers :
              model[n].name \notin last'.keys => model'[n] = model[n]]_vars

\* C6: add_lora_by_name appends one overlay, built by the registry entry of
\* the layer's type, to exactly the layers whose type has a registry entry
\* and whose qualified name contains at least one of the fragments; every
\* other layer keeps its overlays and its parameter as they were.
C6_ByNameAttachesExactlyMatches ==
    [][IsCall("add_lora_by_name") =>
          /\ raised' = NoErr
          /\ \A n \in Layers :
               IF /\ TypeOf(model[n]) \in DOMAIN last'.cfg
                  /\ \E f \in last'.targets : Contains(model[n].name, f)
               THEN /\ Len(model'[n].parametrizations) = 1
                    /\ model'[n].parametrizations[1].cls =
                           last'.cfg[model[n].cls].cls
                    /\ model'[n].weight = model[n].weight
               ELSE model'[n] = model[n]]_vars

C6_Witness ==
    /\ last.op = "add_lora_by_name"
    /\ last.targets = {<<"a">>, <<"c">>}
    /\ Len(model[3].parametrizations) = 1
    /\ model[4].cls = "Linear"
    /\ model[4].parametrizations = <<>>
    /\ model[4] = last.origin[4]

\* C9 (as claimed): a second add_lora with the same registry stacks a second
\* overlay on every attribute the first call wrapped.
C9_SecondAddStacks ==
    [][( /\ IsCall("add_lora")
         /\ last.op = "add_lora"
         /\ last'.cfg = last.cfg ) =>
          \A n \in Layers :
              (model[n].cls \in DOMAIN last.cfg /\ Len(model[n].parametrizations) = 1)
                  => Len(model'[n].parametrizations) = 2]_vars

====
